---- MODULE Spec2Model ----
(***************************************************************************)
(* Model of the signature utilities of paynet-sdk (utils/signature.ts):    *)
(* generatePaymentSignature, generateNotificationSignature and             *)
(* verifyNotificationSignature, driven by a caller that holds one Payment  *)
(* and one Notification object, edits them and calls the functions; and   *)
(* of the PaynetServerSDK class (server.ts, as printed in the package      *)
(* README): its form builders, the request body of createPayment, and the  *)
(* token cache behind authenticate, setAccessToken and ensureToken, with   *)
(* the asynchronous calls interleaving at their awaits.                    *)
(*                                                                         *)
(* A JavaScript string is a sequence of one-character strings.  A scalar   *)
(* value is tagged: Null (undefined or null, which the code never tells    *)
(* apart), Num(n) or Str(s).  An absent sub-record (Customer, MoneyType,   *)
(* Services, Products, notification Payment) is Null as well.              *)
(***************************************************************************)
EXTENDS Integers, Sequences, FiniteSets, TLC

VARIABLES
    payment,        \* the caller's Payment object
    notification,   \* the caller's PaymentNotificationRequest object
    edits,          \* number of caller edits made so far
    payCall,        \* the latest generatePaymentSignature call
    prevPayCall,    \* the generatePaymentSignature call before it
    notifCall,      \* the latest generateNotificationSignature call
    verifyCall,     \* the latest verifyNotificationSignature call
    formCall,       \* the latest buildSetEcomForm or buildGetEcomForm call
    dtoCall,        \* the latest request body createPayment has built
    sdk,            \* the private fields of the PaynetServerSDK instance
    now,            \* Date.now(), in seconds
    calls           \* the asynchronous SDK calls, by caller

vars == <<payment, notification, edits, payCall, prevPayCall,
          notifCall, verifyCall, formCall, dtoCall, sdk, now, calls>>

payVars == <<payment, payCall, prevPayCall>>
notifVars == <<notification, notifCall, verifyCall>>
formVars == <<formCall, dtoCall>>
sessionVars == <<sdk, now, calls>>

-----------------------------------------------------------------------------
(* Bounds of the model *)

MaxEdits == 1

MaxServices == 2

MaxProducts == 1

-----------------------------------------------------------------------------
(* Values *)

Null == [t |-> "null"]

Num(n) == [t |-> "num", n |-> n]

Str(s) == [t |-> "str", s |-> s]

(* an array that is present *)
List(items) == [t |-> "list", items |-> items]

DigitChar(d) ==
    CASE d = 0 -> "0" [] d = 1 -> "1" [] d = 2 -> "2" [] d = 3 -> "3"
      [] d = 4 -> "4" [] d = 5 -> "5" [] d = 6 -> "6" [] d = 7 -> "7"
      [] d = 8 -> "8" [] d = 9 -> "9"

RECURSIVE NatToString(_)
NatToString(n) ==
    IF n < 10 THEN <<DigitChar(n)>>
    ELSE NatToString(n \div 10) \o <<DigitChar(n % 10)>>

(* `${value}` for a number (integers only) and for a string *)
TemplateString(value) ==
    IF value.t = "num"
    THEN IF value.n < 0 THEN <<"-">> \o NatToString(0 - value.n)
         ELSE NatToString(value.n)
    ELSE value.s

(* Mutant: the null test is lost, `${undefined}` is "undefined" *)
toString_NoNullCheck(value) ==
    IF value = Null THEN <<"u", "n", "d", "e", "f", "i", "n", "e", "d">>
    ELSE TemplateString(value)

(* const toString = (value) => (value == null ? '' : `${value}`) *)
toString(value) == IF value = Null THEN <<>> ELSE TemplateString(value)

(* Array.prototype.join('') over an array of strings *)
RECURSIVE Join(_)
Join(strs) == IF strs = <<>> THEN <<>> ELSE Head(strs) \o Join(Tail(strs))

(* Array.prototype.map(toString) *)
MapToString(values) == [i \in 1..Len(values) |-> toString(values[i])]

(* createHash('md5').update(s, 'utf8').digest().toString('base64').  The    *)
(* digest is the crypto library's; it is taken as collision-free, so it is *)
(* an injective encoding of its input that keeps the base64 padding.       *)
Md5Base64(s) == <<"#">> \o s \o <<"=", "=">>

-----------------------------------------------------------------------------
(* generatePaymentSignature *)

productValues(prod) ==
    << prod.Amount, prod.Barcode, prod.Code, prod.Description, prod.GroupId,
       prod.GroupName, prod.LineNo, prod.Name, prod.UnitPrice, prod.UnitProduct >>

(* X ?? [] *)
OrEmpty(list) == IF list = Null THEN <<>> ELSE list.items

RECURSIVE productsValues(_)
productsValues(prods) ==
    IF prods = <<>> THEN <<>>
    ELSE productValues(Head(prods)) \o productsValues(Tail(prods))

(* Mutant: a service's Name is listed before its Description *)
serviceValues_NameFirst(svc) ==
    << svc.Amount, svc.Name, svc.Description >>
        \o productsValues(OrEmpty(svc.Products))

serviceValues(svc) ==
    << svc.Amount, svc.Description, svc.Name >>
        \o productsValues(OrEmpty(svc.Products))

(* Mutant: the products of all services are listed after the services'     *)
(* own fields instead of inside their service                              *)
RECURSIVE servicesOwnValues(_)
servicesOwnValues(svcs) ==
    IF svcs = <<>> THEN <<>>
    ELSE << Head(svcs).Amount, Head(svcs).Description, Head(svcs).Name >>
            \o servicesOwnValues(Tail(svcs))

RECURSIVE servicesProductValues(_)
servicesProductValues(svcs) ==
    IF svcs = <<>> THEN <<>>
    ELSE productsValues(OrEmpty(Head(svcs).Products))
            \o servicesProductValues(Tail(svcs))

servicesValues_ProductsLast(svcs) ==
    servicesOwnValues(svcs) \o servicesProductValues(svcs)

RECURSIVE servicesValues(_)
servicesValues(svcs) ==
    IF svcs = <<>> THEN <<>>
    ELSE serviceValues(Head(svcs)) \o servicesValues(Tail(svcs))

(* payment.MoneyType?.Code *)
moneyTypeCode(p) == IF p.MoneyType = Null THEN Null ELSE p.MoneyType.Code

(* Mutant: the Invoice slot reads the alternative field ExternalID *)
paymentValues_ExternalID(p) ==
    << p.Currency,
       p.Customer.Address, p.Customer.City, p.Customer.Code,
       p.Customer.Country, p.Customer.email, p.Customer.NameFirst,
       p.Customer.NameLast, p.Customer.PhoneNumber,
       p.ExpiryDate, p.ExternalID, p.MerchantCode, moneyTypeCode(p) >>
        \o servicesValues(OrEmpty(p.Services))

(* the array literal of lines 11-42, for a payment that has a Customer *)
paymentValues(p) ==
    << p.Currency,
       p.Customer.Address, p.Customer.City, p.Customer.Code,
       p.Customer.Country, p.Customer.email, p.Customer.NameFirst,
       p.Customer.NameLast, p.Customer.PhoneNumber,
       p.ExpiryDate, p.Invoice, p.MerchantCode, moneyTypeCode(p) >>
        \o servicesValues(OrEmpty(p.Services))

(* Mutant: the secret is put before the canonical string *)
signString_SecretFirst(str, secretKey) == Md5Base64(secretKey \o str)

(* Mutant: one hash object is shared by all calls of                       *)
(* generatePaymentSignature, so a call also digests what the call before   *)
(* it fed in                                                               *)
signString_SharedHash(str, secretKey) ==
    Md5Base64((IF payCall.op # "none" /\ payCall.out.status = "returned"
               THEN payCall.out.str \o payCall.key ELSE <<>>)
              \o str \o secretKey)

(* createHash('md5').update(str + secretKey, 'utf8').digest(), base64 *)
signString(str, secretKey) == Md5Base64(str \o secretKey)

(* Mutant: an absent Customer is read with optional chaining, so that each *)
(* of its fields is undefined                                              *)
generatePaymentSignature_OptionalCustomer(p, secretKey) ==
    LET q == IF p.Customer = Null
             THEN [p EXCEPT !.Customer =
                      [ Address |-> Null, City |-> Null, Code |-> Null,
                        Country |-> Null, email |-> Null, NameFirst |-> Null,
                        NameLast |-> Null, PhoneNumber |-> Null ]]
             ELSE p
        values == paymentValues(q)
        str == Join(MapToString(values))
    IN  [ status |-> "returned", value |-> Str(signString(str, secretKey)),
          values |-> values, str |-> str ]

(* The outcome of a call: it throws a TypeError when payment.Customer is   *)
(* absent (line 13 reads a property of it), else it returns the signature. *)
(* values and str are the function's locals, kept for the properties.      *)
generatePaymentSignature(p, secretKey) ==
    IF p.Customer = Null
    THEN [ status |-> "threw", error |-> "TypeError" ]
    ELSE LET values == paymentValues(p)
             str == Join(MapToString(values))
         IN  [ status |-> "returned", value |-> Str(signString(str, secretKey)),
               values |-> values, str |-> str ]

-----------------------------------------------------------------------------
(* generateNotificationSignature, verifyNotificationSignature *)

(* Mutant: the fields are listed in the order the interface declares them *)
notificationValues_DeclarationOrder(n) ==
    << n.EventID, n.EventType, n.EventDate,
       n.Payment.ID, n.Payment.ExternalID, n.Payment.Merchant,
       n.Payment.Customer, n.Payment.StatusDate, n.Payment.Amount >>

(* Mutant: the Signature field is signed along with the others *)
notificationValues_WithSignature(n) ==
    << n.EventDate, n.EventID, n.EventType,
       n.Payment.Amount, n.Payment.Customer, n.Payment.ExternalID,
       n.Payment.ID, n.Payment.Merchant, n.Payment.StatusDate, n.Signature >>

(* the array literal of lines 61-71 *)
notificationValues(n) ==
    << n.EventDate, n.EventID, n.EventType,
       n.Payment.Amount, n.Payment.Customer, n.Payment.ExternalID,
       n.Payment.ID, n.Payment.Merchant, n.Payment.StatusDate >>

(* The outcome of a call: it throws a TypeError when notification.Payment  *)
(* is absent (line 65 reads a property of it), else it returns the         *)
(* signature.  values and str are the function's locals.                   *)
generateNotificationSignature(n, secretKey) ==
    IF n.Payment = Null
    THEN [ status |-> "threw", error |-> "TypeError" ]
    ELSE LET values == notificationValues(n)
             str == Join(MapToString(values))
         IN  [ status |-> "returned", value |-> Str(signString(str, secretKey)),
               values |-> values, str |-> str ]

(* Mutant: a notification that carries no Signature is accepted *)
StrictEquals_AbsentAccepted(a, b) == b = Null \/ a = b

(* computedSignature === notification.Signature *)
StrictEquals(a, b) == a = b

(* The outcome of a call: what generateNotificationSignature throws passes *)
(* through, else the boolean is returned.  computed is the outcome of the  *)
(* generateNotificationSignature call made on line 88.                     *)
verifyNotificationSignature(n, secretKey) ==
    LET computed == generateNotificationSignature(n, secretKey) IN
    IF computed.status = "threw" THEN computed
    ELSE [ status |-> "returned",
           value  |-> StrictEquals(computed.value, n.Signature),
           computed |-> computed ]

-----------------------------------------------------------------------------
(* The caller's inputs *)

(* secrets a notification is signed or verified with *)
Keys == { <<"k">>, <<"2", "0", "2", "4", "k">> }

(* the merchant's secret its payments are signed with *)
PaymentKeys == { <<"k">> }

NumVals == { Null, Str(<<>>), Num(1), Num(12) }

StrVals == { Null, Str(<<>>), Str(<<"2">>) }

NumFields == { "Currency", "Invoice", "Amount", "Barcode", "GroupId", "LineNo",
               "UnitPrice", "UnitProduct", "EventID", "ExternalID", "ID" }

FieldVals(f) == IF f \in NumFields THEN NumVals ELSE StrVals

TopFields == { "Currency", "ExpiryDate", "Invoice", "MerchantCode" }

CustomerFields == { "Address", "City", "Code", "Country", "email",
                    "NameFirst", "NameLast", "PhoneNumber" }

ServiceFields == { "Amount", "Description", "Name" }

ProductFields == { "Amount", "Barcode", "Code", "Description", "GroupId",
                   "GroupName", "LineNo", "Name", "UnitPrice", "UnitProduct" }

NewProduct ==
    [ Amount |-> Num(3), Barcode |-> Num(4), Code |-> Str(<<"c">>),
      Description |-> Str(<<"d">>), GroupId |-> Num(5),
      GroupName |-> Str(<<"g">>), LineNo |-> Num(6), Name |-> Str(<<"n">>),
      UnitPrice |-> Num(8), UnitProduct |-> Num(12) ]

NewService ==
    [ Amount |-> Num(1), Description |-> Str(<<"D">>), Name |-> Str(<<"S">>),
      Products |-> Null ]

NoFieldsCustomer == [ f \in CustomerFields |-> Null ]

(* the scenario of the specification: only Customer.Code given, one        *)
(* service with an empty product list                                      *)
MinimalPayment ==
    [ Currency |-> Num(498),
      Customer |-> [ NoFieldsCustomer EXCEPT !.Code = Str(<<"C", "1">>) ],
      ExpiryDate |-> Str(<<"2", "0", "2", "4">>),
      Invoice |-> Num(12345),
      MerchantCode |-> Str(<<"1", "2", "3">>),
      ExternalID |-> Null,
      MoneyType |-> Null,
      Services |-> List(<< [ Amount |-> Num(1000), Description |-> Str(<<"D">>),
                             Name |-> Str(<<"S">>), Products |-> List(<<>>) ] >>),
      Signature |-> Null,
      SignVersion |-> Null ]

(* every field given; one service with a product, one without *)
FullPayment ==
    [ Currency |-> Num(498),
      Customer |-> [ Address |-> Str(<<"A">>), City |-> Str(<<"B">>),
                     Code |-> Str(<<"C">>), Country |-> Str(<<"M", "D">>),
                     email |-> Str(<<"e", "@", "x">>), NameFirst |-> Str(<<"F">>),
                     NameLast |-> Str(<<"L">>), PhoneNumber |-> Str(<<"3", "7">>) ],
      ExpiryDate |-> Str(<<"2", "0", "2", "4">>),
      Invoice |-> Num(7),
      MerchantCode |-> Str(<<"1", "2", "3">>),
      ExternalID |-> Null,
      MoneyType |-> [ Code |-> Str(<<"P">>) ],
      Services |-> List(<< [ Amount |-> Num(1), Description |-> Str(<<"2">>),
                             Name |-> Str(<<"a">>), Products |-> Null ],
                           [ Amount |-> Num(12), Description |-> Str(<<>>),
                             Name |-> Str(<<"a">>),
                             Products |-> List(<< NewProduct >>) ] >>),
      Signature |-> Null,
      SignVersion |-> Null ]

(* two services that differ field by field *)
TwoServicePayment ==
    [ MinimalPayment EXCEPT
        !.Services = List(<< [ Amount |-> Num(1), Description |-> Str(<<"2">>),
                               Name |-> Str(<<"a">>), Products |-> Null ],
                             [ Amount |-> Num(12), Description |-> Str(<<>>),
                               Name |-> Str(<<"a">>), Products |-> List(<<>>) ] >>) ]

(* a Payment that has no Customer record *)
NoCustomerPayment == [ MinimalPayment EXCEPT !.Customer = Null ]

BasePayments ==
    { MinimalPayment, FullPayment, TwoServicePayment, NoCustomerPayment }

NoCall == [ op |-> "none" ]

-----------------------------------------------------------------------------
(* Scalar fields of a Payment, by path *)

ServiceIndexes(p) == 1..Len(OrEmpty(p.Services))

ProductIndexes(p, i) ==
    1..Len(OrEmpty(p.Services.items[i].Products))

PaymentPaths(p) ==
    { [at |-> "top", f |-> f] : f \in TopFields }
    \cup (IF p.Customer = Null THEN {}
          ELSE { [at |-> "Customer", f |-> f] : f \in CustomerFields })
    \cup (IF p.MoneyType = Null THEN {}
          ELSE { [at |-> "MoneyType", f |-> "Code"] })
    \cup { [at |-> "Service", i |-> i, f |-> f] :
             i \in ServiceIndexes(p), f \in ServiceFields }
    \cup UNION { { [at |-> "Product", i |-> i, j |-> j, f |-> f] :
                     j \in ProductIndexes(p, i), f \in ProductFields } :
                 i \in ServiceIndexes(p) }

GetField(p, path) ==
    CASE path.at = "top" -> p[path.f]
      [] path.at = "Customer" -> p.Customer[path.f]
      [] path.at = "MoneyType" -> p.MoneyType[path.f]
      [] path.at = "Service" -> p.Services.items[path.i][path.f]
      [] path.at = "Product" ->
            p.Services.items[path.i].Products.items[path.j][path.f]

SetField(p, path, v) ==
    CASE path.at = "top" -> [p EXCEPT ![path.f] = v]
      [] path.at = "Customer" -> [p EXCEPT !.Customer[path.f] = v]
      [] path.at = "MoneyType" -> [p EXCEPT !.MoneyType[path.f] = v]
      [] path.at = "Service" -> [p EXCEPT !.Services.items[path.i][path.f] = v]
      [] path.at = "Product" ->
            [p EXCEPT !.Services.items[path.i].Products.items[path.j][path.f] = v]

Swap(list, i, j) ==
    [ x \in 1..Len(list) |->
        IF x = i THEN list[j] ELSE IF x = j THEN list[i] ELSE list[x] ]

-----------------------------------------------------------------------------
(* Caller steps on the Payment *)

CanEdit == edits < MaxEdits

Edited == edits' = edits + 1

(* the caller assigns one scalar field of the schedule *)
SetPaymentField ==
    /\ CanEdit
    /\ \E path \in PaymentPaths(payment) :
         \E v \in FieldVals(path.f) \ { GetField(payment, path) } :
            payment' = SetField(payment, path, v)
    /\ Edited
    /\ UNCHANGED <<payCall, prevPayCall, notifVars, formVars, sessionVars>>

(* the caller exchanges two entries of payment.Services *)
SwapServices ==
    /\ CanEdit
    /\ \E i, j \in ServiceIndexes(payment) :
         /\ i < j
         /\ payment' = [payment EXCEPT !.Services.items = Swap(@, i, j)]
    /\ Edited
    /\ UNCHANGED <<payCall, prevPayCall, notifVars, formVars, sessionVars>>

(* the caller appends a service *)
AddService ==
    /\ CanEdit
    /\ payment.Services # Null
    /\ Len(payment.Services.items) < MaxServices
    /\ payment' = [payment EXCEPT !.Services.items = Append(@, NewService)]
    /\ Edited
    /\ UNCHANGED <<payCall, prevPayCall, notifVars, formVars, sessionVars>>

(* the caller appends a product to a service *)
AddProduct ==
    /\ CanEdit
    /\ \E i \in ServiceIndexes(payment) :
         /\ Len(OrEmpty(payment.Services.items[i].Products)) < MaxProducts
         /\ payment' = [payment EXCEPT !.Services.items[i].Products =
                                          List(Append(OrEmpty(@), NewProduct))]
    /\ Edited
    /\ UNCHANGED <<payCall, prevPayCall, notifVars, formVars, sessionVars>>

(* the caller removes or gives a sub-record *)
SetSubRecord ==
    /\ CanEdit
    /\ \E r \in { [Customer |-> Null], [Customer |-> NoFieldsCustomer],
                  [MoneyType |-> Null], [Services |-> Null] }
                \cup { [MoneyType |-> [Code |-> v]] : v \in StrVals } :
         \E f \in DOMAIN r :
            /\ payment[f] # r[f]
            /\ payment' = [payment EXCEPT ![f] = r[f]]
    /\ Edited
    /\ UNCHANGED <<payCall, prevPayCall, notifVars, formVars, sessionVars>>

(* a call of generatePaymentSignature(payment, secretKey) *)
CallGeneratePaymentSignature ==
    /\ \E secretKey \in PaymentKeys :
         payCall' = [ op |-> "generatePaymentSignature", arg |-> payment,
                      key |-> secretKey,
                      out |-> generatePaymentSignature(payment, secretKey) ]
    /\ prevPayCall' = payCall
    /\ UNCHANGED <<payment, edits, notifVars, formVars, sessionVars>>

-----------------------------------------------------------------------------

BaseNotification ==
    [ EventID |-> Num(1), EventType |-> Str(<<"P", "A", "I", "D">>),
      EventDate |-> Str(<<"2", "0", "2", "4">>),
      Payment |-> [ ID |-> Num(12), ExternalID |-> Num(7),
                    Merchant |-> Str(<<"M">>), Customer |-> Str(<<"C">>),
                    StatusDate |-> Str(<<"2", "0", "2", "4">>),
                    Amount |-> Num(1000) ],
      Signature |-> Null,
      SignVersion |-> Null ]

-----------------------------------------------------------------------------
(* Caller steps on the Notification *)

NotificationTopFields == { "EventDate", "EventID", "EventType" }

NotificationPaymentFields ==
    { "Amount", "Customer", "ExternalID", "ID", "Merchant", "StatusDate" }

(* Signature values a sender can put: none, or one that is no digest *)
SignatureVals == { Null, Str(<<"t", "a", "m", "p", "e", "r", "e", "d">>) }

SignVersionVals == { Null, Str(<<"v", "0", "5">>) }

NoFieldsNotificationPayment == [ f \in NotificationPaymentFields |-> Null ]

(* the caller assigns one scalar field of the notification *)
SetNotificationField ==
    /\ CanEdit
    /\ \/ \E f \in NotificationTopFields :
            \E v \in FieldVals(f) \ { notification[f] } :
               notification' = [notification EXCEPT ![f] = v]
       \/ /\ notification.Payment # Null
          /\ \E f \in NotificationPaymentFields :
               \E v \in FieldVals(f) \ { notification.Payment[f] } :
                  notification' = [notification EXCEPT !.Payment[f] = v]
       \/ \E v \in SignatureVals \ { notification.Signature } :
            notification' = [notification EXCEPT !.Signature = v]
       \/ \E v \in SignVersionVals \ { notification.SignVersion } :
            notification' = [notification EXCEPT !.SignVersion = v]
    /\ Edited
    /\ UNCHANGED <<payVars, notifCall, verifyCall, formVars, sessionVars>>

(* the caller removes or gives the Payment sub-record *)
SetNotificationPayment ==
    /\ CanEdit
    /\ \E r \in { Null, NoFieldsNotificationPayment } :
         /\ notification.Payment # r
         /\ notification' = [notification EXCEPT !.Payment = r]
    /\ Edited
    /\ UNCHANGED <<payVars, notifCall, verifyCall, formVars, sessionVars>>

(* the caller puts the signature the latest generateNotificationSignature  *)
(* call returned for this notification on it:                              *)
(* {...n, Signature: generateNotificationSignature(n, k)}                  *)
AttachSignature ==
    /\ CanEdit
    /\ notifCall.op # "none"
    /\ notifCall.out.status = "returned"
    /\ notifCall.arg = notification
    /\ notification' = [notification EXCEPT !.Signature = notifCall.out.value]
    /\ Edited
    /\ UNCHANGED <<payVars, notifCall, verifyCall, formVars, sessionVars>>

(* a call of generateNotificationSignature(notification, secretKey) *)
CallGenerateNotificationSignature ==
    /\ \E secretKey \in Keys :
         notifCall' = [ op |-> "generateNotificationSignature",
                        arg |-> notification, key |-> secretKey,
                        out |-> generateNotificationSignature(notification,
                                                              secretKey) ]
    /\ UNCHANGED <<payVars, notification, edits, verifyCall, formVars, sessionVars>>

(* a call of verifyNotificationSignature(notification, secretKey) *)
CallVerifyNotificationSignature ==
    /\ \E secretKey \in Keys :
         verifyCall' = [ op |-> "verifyNotificationSignature",
                         arg |-> notification, key |-> secretKey,
                         out |-> verifyNotificationSignature(notification,
                                                             secretKey) ]
    /\ UNCHANGED <<payVars, notification, edits, notifCall, formVars, sessionVars>>

-----------------------------------------------------------------------------
(* The PaynetServerSDK instance (README.md, "export class PaynetServerSDK") *)

(* config.apiHost.replace(/\/$/, '') *)
StripTrailingSlash(host) ==
    IF host # <<>> /\ host[Len(host)] = "/"
    THEN SubSeq(host, 1, Len(host) - 1)
    ELSE host

(* the constructor; httpClient and debug do not bear on the state *)
PaynetServerSDK(config) ==
    [ apiHost |-> StripTrailingSlash(config.apiHost),
      portalHost |-> StripTrailingSlash(config.portalHost),
      secretKey |-> config.secretKey,
      accessToken |-> Null,
      tokenExpiresAt |-> Null,
      authUsername |-> Null,
      authPassword |-> Null ]

(* hosts are sequences of lexemes; the trailing slash is one *)
DefaultConfig ==
    [ apiHost |-> <<"https://api.test">>,
      portalHost |-> <<"https://portal.test", "/">>,
      secretKey |-> <<"k">> ]

-----------------------------------------------------------------------------
(* JavaScript values in the form builders *)

(* !!value: undefined, null, '' and 0 are falsy *)
Truthy(value) == value # Null /\ value # Str(<<>>) /\ value # Num(0)

(* a || b *)
Or(a, b) == IF Truthy(a) THEN a ELSE b

(* an object is the sequence of its own entries, in insertion order *)
Obj(entries) == [ t |-> "obj", entries |-> entries ]

Entry(key, value) == [ key |-> key, value |-> value ]

(* Object.entries of a record whose keys were inserted in the order keys;  *)
(* a key whose value is Null is present and holds null or undefined        *)
ObjectEntries(rec, keys) ==
    [ i \in 1..Len(keys) |-> Entry(<<keys[i]>>, rec[keys[i]]) ]

CustomerKeys == << "Code", "NameFirst", "NameLast", "PhoneNumber", "email",
                   "Country", "City", "Address" >>

ServiceKeys == << "Name", "Description", "Amount", "Products" >>

MoneyTypeKeys == << "Code" >>

RECURSIVE Concat(_)
Concat(seqs) == IF seqs = <<>> THEN <<>> ELSE Head(seqs) \o Concat(Tail(seqs))

(* String(value): an array of objects reads "[object Object]" per item,    *)
(* joined with commas; null reads "null" (undefined would read "undefined") *)
String(value) ==
    CASE value = Null -> <<"n", "u", "l", "l">>
      [] value.t = "list" ->
            Concat([ i \in 1..Len(value.items) |->
                       IF i = 1 THEN <<"[object Object]">>
                       ELSE <<",", "[object Object]">> ])
      [] value.t = "obj" -> <<"[object Object]">>
      [] OTHER -> TemplateString(value)

HtmlEntity(c) ==
    CASE c = "&" -> <<"&", "a", "m", "p", ";">>
      [] c = "<" -> <<"&", "l", "t", ";">>
      [] c = ">" -> <<"&", "g", "t", ";">>
      [] c = "\"" -> <<"&", "q", "u", "o", "t", ";">>
      [] c = "'" -> <<"&", "#", "0", "3", "9", ";">>
      [] OTHER -> <<c>>

escapeHtml(text) == Concat([ i \in 1..Len(text) |-> HtmlEntity(text[i]) ])

-----------------------------------------------------------------------------
(* Form construction *)

(* flattenObject(obj, prefix): the entries that are neither null nor       *)
(* undefined, under the key `${prefix}.${key}`                             *)
flattenObject(obj, prefix) ==
    Obj(SelectSeq([ i \in 1..Len(obj.entries) |->
                      Entry(<<prefix, ".">> \o obj.entries[i].key,
                            obj.entries[i].value) ],
                  LAMBDA e : e.value # Null))

(* `[${index}]`, index counted from 0 *)
Index(i) == <<"[">> \o NatToString(i - 1) \o <<"]">>

(* flattenArray(arr, prefix): every entry of every object item, under the  *)
(* key `${prefix}[${index}].${key}`; other items are kept                  *)
flattenArray(arr, prefix) ==
    List([ i \in 1..Len(arr.items) |->
             IF arr.items[i] # Null /\ arr.items[i].t = "obj"
             THEN Obj([ k \in 1..Len(arr.items[i].entries) |->
                          Entry(<<prefix>> \o Index(i) \o <<".">>
                                  \o arr.items[i].entries[k].key,
                                arr.items[i].entries[k].value) ])
             ELSE arr.items[i] ])

(* one <input type="hidden" name="..." value="..."> *)
Input(name, value) ==
    [ name |-> escapeHtml(name), value |-> escapeHtml(String(value)) ]

(* typeof value === 'object' && value !== null && !Array.isArray(value) *)
IsPlainObject(value) == value # Null /\ value.t = "obj"

(* the inputs of the entries of an object found under the name base        *)
(* (buildForm lines 820-828 and 834-842)                                   *)
MemberInputs(base, entries) ==
    Concat([ i \in 1..Len(entries) |->
        LET subKey == entries[i].key
            subValue == entries[i].value
        IN IF IsPlainObject(subValue)
           THEN [ k \in 1..Len(subValue.entries) |->
                    Input(base \o <<".">> \o subKey \o <<".">>
                            \o subValue.entries[k].key,
                          subValue.entries[k].value) ]
           ELSE << Input(base \o <<".">> \o subKey, subValue) >> ])

(* the inputs of one entry of the data (buildForm lines 812-845) *)
EntryInputs(key, value) ==
    CASE value = Null -> <<>>
      [] value.t = "list" ->
            Concat([ i \in 1..Len(value.items) |->
                IF IsPlainObject(value.items[i])
                THEN MemberInputs(key \o Index(i), value.items[i].entries)
                ELSE << Input(key \o Index(i), value.items[i]) >> ])
      [] value.t = "obj" -> MemberInputs(key, value.entries)
      [] OTHER -> << Input(key, value) >>

(* buildForm(action, data): the form element, as its action and the        *)
(* sequence of its hidden inputs                                           *)
buildForm(action, data) ==
    [ action |-> escapeHtml(action),
      inputs |-> Concat([ i \in 1..Len(data) |->
                            EntryInputs(data[i].key, data[i].value) ]) ]

(* lang: string = 'en-US' *)
LangOrDefault(lang) ==
    IF lang = Null THEN Str(<<"e", "n", "-", "U", "S">>) ELSE lang

(* Mutant: the alternative spelling PaymentId is read first *)
buildGetEcomForm_PaymentIdFirst(self, p, successUrl, cancelUrl, lang) ==
    LET paymentId == Or(p.PaymentId, p.PaymentID) IN
    IF ~Truthy(paymentId) \/ ~Truthy(p.Signature)
    THEN [ status |-> "threw", error |-> "PaynetValidationError" ]
    ELSE [ status |-> "returned",
           form |-> buildForm(self.portalHost \o <<"/Acquiring/GetEcom">>,
                      << Entry(<<"operation">>, paymentId),
                         Entry(<<"LinkUrlSucces">>, successUrl),
                         Entry(<<"LinkUrlCancel">>, cancelUrl),
                         Entry(<<"ExpiryDate">>, p.ExpiryDate),
                         Entry(<<"Lang">>, LangOrDefault(lang)),
                         Entry(<<"Signature">>, p.Signature) >>) ]

(* buildGetEcomForm(payment, successUrl, cancelUrl, lang): the outcome of  *)
(* the call                                                                *)
buildGetEcomForm(self, p, successUrl, cancelUrl, lang) ==
    LET paymentId == Or(p.PaymentID, p.PaymentId) IN
    IF ~Truthy(paymentId)
    THEN [ status |-> "threw", error |-> "PaynetValidationError" ]
    ELSE IF ~Truthy(p.Signature)
    THEN [ status |-> "threw", error |-> "PaynetValidationError" ]
    ELSE [ status |-> "returned",
           form |-> buildForm(self.portalHost \o <<"/Acquiring/GetEcom">>,
                      << Entry(<<"operation">>, paymentId),
                         Entry(<<"LinkUrlSucces">>, successUrl),
                         Entry(<<"LinkUrlCancel">>, cancelUrl),
                         Entry(<<"ExpiryDate">>, p.ExpiryDate),
                         Entry(<<"Lang">>, LangOrDefault(lang)),
                         Entry(<<"Signature">>, p.Signature) >>) ]

(* Mutant: the payment is normalised in place as well *)
signIfUnsigned_WritesExternalID(self, p) ==
    LET computed == generatePaymentSignature(p, self.secretKey) IN
    IF ~Truthy(p.Signature) /\ computed.status = "threw"
    THEN [ status |-> "threw", error |-> computed.error, payment |-> p ]
    ELSE [ status |-> "returned",
           payment |->
             [ p EXCEPT !.Signature = IF Truthy(@) THEN @ ELSE computed.value,
                        !.SignVersion = IF Truthy(@) THEN @
                                        ELSE Str(<<"v", "0", "5">>),
                        !.ExternalID = Or(@, p.Invoice) ] ]

(* buildSetEcomForm lines 769-774: a payment without Signature is given    *)
(* the computed one, a payment without SignVersion is given 'v05'; both    *)
(* are written to the caller's object                                      *)
signIfUnsigned(self, p) ==
    LET computed == generatePaymentSignature(p, self.secretKey) IN
    IF ~Truthy(p.Signature) /\ computed.status = "threw"
    THEN [ status |-> "threw", error |-> computed.error, payment |-> p ]
    ELSE [ status |-> "returned",
           payment |->
             [ p EXCEPT !.Signature = IF Truthy(@) THEN @ ELSE computed.value,
                        !.SignVersion = IF Truthy(@) THEN @
                                        ELSE Str(<<"v", "0", "5">>) ] ]

(* the formData of buildSetEcomForm (lines 776-800), in insertion order *)
setEcomFormData(p, successUrl, cancelUrl, lang) ==
    << Entry(<<"ExternalID">>, Or(p.ExternalID, p.Invoice)),
       Entry(<<"Merchant">>, p.MerchantCode),
       Entry(<<"Currency">>, p.Currency),
       Entry(<<"ExpiryDate">>, p.ExpiryDate),
       Entry(<<"ExternalDate">>, p.ExternalDate),
       Entry(<<"Customer">>,
             flattenObject(Obj(ObjectEntries(p.Customer, CustomerKeys)),
                           "Customer")),
       Entry(<<"Services">>,
             flattenArray(List([ i \in 1..Len(p.Services.items) |->
                                   Obj(ObjectEntries(p.Services.items[i],
                                                     ServiceKeys)) ]),
                          "Services")),
       Entry(<<"LinkUrlSucces">>, successUrl),
       Entry(<<"LinkUrlSuccess">>, successUrl),
       Entry(<<"LinkUrlCancel">>, cancelUrl),
       Entry(<<"Lang">>, LangOrDefault(lang)),
       Entry(<<"SignVersion">>, p.SignVersion),
       Entry(<<"Signature">>, p.Signature) >>
    \o (IF p.MoneyType # Null
        THEN << Entry(<<"MoneyType">>,
                      flattenObject(Obj(ObjectEntries(p.MoneyType,
                                                      MoneyTypeKeys)),
                                    "MoneyType")) >>
        ELSE <<>>)
    \o (IF p.Payer # Null
        THEN << Entry(<<"Payer">>,
                      flattenObject(Obj(ObjectEntries(p.Payer, CustomerKeys)),
                                    "Payer")) >>
        ELSE <<>>)
    \o (IF Truthy(p.SaleAreaCode)
        THEN << Entry(<<"SaleAreaCode">>, p.SaleAreaCode) >>
        ELSE <<>>)

(* buildSetEcomForm(payment, successUrl, cancelUrl, lang): the outcome of  *)
(* the call and the caller's payment after it.  Object.entries of an       *)
(* absent Customer and map of an absent Services throw a TypeError, after  *)
(* the payment was written.                                                *)
buildSetEcomForm(self, p, successUrl, cancelUrl, lang) ==
    LET signed == signIfUnsigned(self, p) IN
    IF signed.status = "threw" THEN signed
    ELSE IF signed.payment.Customer = Null \/ signed.payment.Services = Null
    THEN [ status |-> "threw", error |-> "TypeError",
           payment |-> signed.payment ]
    ELSE [ status |-> "returned",
           payment |-> signed.payment,
           form |-> buildForm(self.portalHost \o <<"/Acquiring/SetEcom">>,
                              setEcomFormData(signed.payment, successUrl,
                                              cancelUrl, lang)) ]

-----------------------------------------------------------------------------
(* The caller's inputs to the form builders *)

(* fields of a Payment the form builders read and the signature does not *)
FormOnlyFields ==
    { "PaymentID", "PaymentId", "ExternalDate", "Payer", "SaleAreaCode" }

WithFormFields(p) ==
    [ f \in DOMAIN p \cup FormOnlyFields |->
        IF f \in DOMAIN p THEN p[f] ELSE Null ]

FormFieldVals(f) ==
    CASE f = "PaymentID" -> { Null, Num(0), Num(7) }
      [] f = "PaymentId" -> { Null, Num(9) }
      [] f = "ExternalID" -> { Null, Num(5) }
      [] f = "Signature" -> { Null, Str(<<>>) } \cup SignatureVals
      [] f = "SignVersion" -> SignVersionVals
      [] f = "Payer" ->
            { Null, [ NoFieldsCustomer EXCEPT !.Code = Str(<<"P", "1">>) ] }
      [] OTHER -> StrVals

FormFields == FormOnlyFields \cup { "ExternalID", "Signature", "SignVersion" }

(* payments as createPayment returns them or as the caller writes them *)
FormPayments ==
    { [ WithFormFields(p) EXCEPT !.PaymentID = id, !.PaymentId = alt ] :
        p \in { MinimalPayment, FullPayment },
        id \in { Null, Num(7) }, alt \in { Null, Num(9) } }

SuccessUrl == Str(<<"h", "t", "t", "p", ":", "/", "/", "o", "k">>)

CancelUrl == Str(<<"h", "t", "t", "p", ":", "/", "/", "n", "o">>)

Langs == { Null, Str(<<"r", "o">>) }

(* the caller assigns a field the form builders read *)
SetFormField ==
    /\ CanEdit
    /\ \E f \in FormFields :
         \E v \in FormFieldVals(f) \ { payment[f] } :
            payment' = [payment EXCEPT ![f] = v]
    /\ Edited
    /\ UNCHANGED <<payCall, prevPayCall, notifVars, formVars, sessionVars>>

(* a call of sdk.buildSetEcomForm(payment, successUrl, cancelUrl, lang);   *)
(* payment is the caller's object, which the call writes to                *)
CallBuildSetEcomForm ==
    /\ \E lang \in Langs :
         LET out == buildSetEcomForm(sdk, payment, SuccessUrl, CancelUrl, lang)
         IN /\ formCall' = [ op |-> "buildSetEcomForm", arg |-> payment,
                             lang |-> lang, out |-> out ]
            /\ payment' = out.payment
    /\ UNCHANGED <<edits, payCall, prevPayCall, notifVars, dtoCall,
                   sessionVars>>

(* a call of sdk.buildGetEcomForm(payment, successUrl, cancelUrl, lang) *)
CallBuildGetEcomForm ==
    /\ \E lang \in Langs :
         formCall' = [ op |-> "buildGetEcomForm", arg |-> payment,
                       lang |-> lang,
                       out |-> buildGetEcomForm(sdk, payment, SuccessUrl,
                                                CancelUrl, lang) ]
    /\ UNCHANGED <<payment, edits, payCall, prevPayCall, notifVars, dtoCall,
                   sessionVars>>

-----------------------------------------------------------------------------
(* The request body of createPayment (README.md lines 514-521, 685-720) *)

(* a ?? b *)
Coalesce(a, b) == IF a = Null THEN b ELSE a

(* product.Quantity ?? (product.UnitProduct ? product.UnitProduct / 100 : 1); *)
(* the UnitProduct values drawn are multiples of 100, so the quotient is    *)
(* the exact one                                                           *)
productQuantity(product) ==
    IF product.Quantity # Null THEN product.Quantity.n
    ELSE IF Truthy(product.UnitProduct) THEN product.UnitProduct.n \div 100
    ELSE 1

(* the reducer of mapServiceToDTO (lines 689-695) *)
addProduct(sum, product) ==
    IF product.TotalAmount # Null THEN sum + product.TotalAmount.n
    ELSE IF product.Amount # Null THEN sum + product.Amount.n
    ELSE sum + productQuantity(product) * Coalesce(product.UnitPrice, Num(0)).n

(* service.Products.reduce(..., 0) *)
RECURSIVE reduceProducts(_, _)
reduceProducts(sum, products) ==
    IF products = <<>> THEN sum
    ELSE reduceProducts(addProduct(sum, Head(products)), Tail(products))

(* mapProductToDTO(product, index): index counts from 0 *)
mapProductToDTO(product, index) ==
    [ product EXCEPT !.LineNo = Coalesce(@, Num(index + 1)) ]

(* mapServiceToDTO(service) *)
mapServiceToDTO(service) ==
    LET hasProducts == service.Products # Null
                         /\ Len(service.Products.items) > 0
        calculatedAmount == reduceProducts(0, service.Products.items)
        serviceAmount ==
            IF hasProducts /\ ~Truthy(service.Amount)
            THEN Num(calculatedAmount)
            ELSE Coalesce(service.Amount, Num(0))
    IN [ Name |-> service.Name,
         Description |-> service.Description,
         Amount |-> serviceAmount,
         Products |->
            IF service.Products = Null THEN List(<<>>)
            ELSE List([ i \in 1..Len(service.Products.items) |->
                          mapProductToDTO(service.Products.items[i], i - 1) ]) ]

(* paymentData of createPayment (lines 514-521); a payment without         *)
(* Services makes payment.Services.map throw                               *)
createPaymentData(p) ==
    IF p.Services = Null THEN [ status |-> "threw", error |-> "TypeError" ]
    ELSE [ status |-> "returned",
           value |->
             [ p EXCEPT
                 !.LinkUrlSucces = IF Truthy(Or(@, p.LinkUrlSuccess))
                                   THEN Or(@, p.LinkUrlSuccess) ELSE @,
                 !.Invoice = Or(p.ExternalID, @),
                 !.Services = List([ i \in 1..Len(@.items) |->
                                       mapServiceToDTO(@.items[i]) ]) ] ]

(* the products a caller gives to createPayment *)
DTOProducts ==
    { [ TotalAmount |-> total, Amount |-> amount, Quantity |-> quantity,
        UnitProduct |-> unitProduct, UnitPrice |-> unitPrice,
        LineNo |-> Null, Name |-> Str(<<"n">>) ] :
        total \in { Null, Num(0), Num(5) },
        amount \in { Null, Num(3) },
        quantity \in { Null, Num(2) },
        unitProduct \in { Null, Num(300) },
        unitPrice \in { Null, Num(4) } }

SeqsUpTo(S, n) == UNION { [ 1..k -> S ] : k \in 0..n }

DTOServices ==
    { [ Name |-> Str(<<"S">>), Description |-> Str(<<"D">>),
        Amount |-> amount, Products |-> products ] :
        amount \in { Null, Num(0), Num(7) },
        products \in { Null } \cup { List(items) :
                                       items \in SeqsUpTo(DTOProducts,
                                                          MaxProducts) } }

(* the payment of the README's createPayment example, with the links *)
DTOPayment ==
    [ f \in DOMAIN WithFormFields(MinimalPayment)
              \cup { "LinkUrlSucces", "LinkUrlSuccess" } |->
        IF f = "LinkUrlSuccess" THEN SuccessUrl
        ELSE IF f = "LinkUrlSucces" THEN Null
        ELSE WithFormFields(MinimalPayment)[f] ]

(* createPayment(payment) builds the body of its request *)
CallCreatePayment ==
    /\ \E services \in { Null } \cup { List(<<s>>) : s \in DTOServices } :
         LET p == [ DTOPayment EXCEPT !.Services = services ]
         IN dtoCall' = [ op |-> "createPayment", arg |-> p,
                         out |-> createPaymentData(p) ]
    /\ UNCHANGED <<payVars, notifVars, edits, formCall, sessionVars>>

-----------------------------------------------------------------------------
(* The token cache: authenticate, setAccessToken, ensureToken               *)
(* (README.md lines 401-502).  Date.now() and the expiry are in seconds;    *)
(* the code's milliseconds are these times 1000.                            *)

(* the 5 seconds taken off expires_in *)
Skew == 5

MaxTime == 1

MaxCalls == 2

Callers == 1..MaxCalls

Thrown(error) == [ status |-> "threw", error |-> error ]

(* Mutant: the credentials are stored once the endpoint has accepted them, *)
(* not before                                                              *)
authenticateBegin_KeepCredentials(self, username, password) == self

(* authenticate lines 402-403: the credentials are stored before the       *)
(* request is made                                                         *)
authenticateBegin(self, username, password) ==
    [ self EXCEPT !.authUsername = username, !.authPassword = password ]

(* the POST to `${apiHost}/auth` of lines 405-420 *)
AuthRequest(username, password) ==
    [ username |-> username, password |-> password ]

(* authenticate lines 421-446, once the request has settled at time t:     *)
(* the instance after it and the outcome of authenticate                   *)
authenticateEnd(self, response, t) ==
    CASE response.kind = "rejected" ->
            [ sdk |-> self, out |-> Thrown("PaynetNetworkError") ]
      [] response.kind = "notOk" ->
            [ sdk |-> self, out |-> Thrown("PaynetAuthenticationError") ]
      [] OTHER ->
            [ sdk |-> [ self EXCEPT
                          !.accessToken = response.access_token,
                          !.tokenExpiresAt =
                             Num(t + (response.expires_in - Skew)) ],
              out |-> [ status |-> "returned" ] ]

(* setAccessToken(token, expiresIn) at time t *)
setAccessToken(self, token, expiresIn, t) ==
    [ self EXCEPT !.accessToken = token,
                  !.tokenExpiresAt = IF expiresIn # Null
                                     THEN Num(t + (expiresIn.n - Skew))
                                     ELSE Null ]

(* Mutant: the null test is lost; Date.now() >= null is true *)
tokenExpired_NullIsZero(self, t) ==
    t >= (IF self.tokenExpiresAt = Null THEN 0 ELSE self.tokenExpiresAt.n)

(* this.tokenExpiresAt !== null && Date.now() >= this.tokenExpiresAt *)
tokenExpired(self, t) ==
    self.tokenExpiresAt # Null /\ t >= self.tokenExpiresAt.n

(* this.authUsername && this.authPassword *)
hasCredentials(self) ==
    Truthy(self.authUsername) /\ Truthy(self.authPassword)

(* ensureToken lines 488-501, at time t: what it does next.  started is    *)
(* the number of authenticate calls it has started and not awaited to      *)
(* their end.                                                              *)
ensureTokenExpiry(self, t) ==
    IF tokenExpired(self, t)
    THEN IF hasCredentials(self)
         THEN [ next |-> "await2", started |-> 1, error |-> Null ]
         ELSE [ next |-> "throw", started |-> 0,
                error |-> Thrown("PaynetSDKError") ]
    ELSE [ next |-> "return", started |-> 0, error |-> Null ]

(* Mutant: the authenticate call of line 480 is not awaited *)
ensureTokenBegin_NoAwait(self, t) ==
    IF ~Truthy(self.accessToken)
    THEN IF hasCredentials(self)
         THEN [ ensureTokenExpiry(self, t) EXCEPT !.started = @ + 1 ]
         ELSE [ next |-> "throw", started |-> 0,
                error |-> Thrown("PaynetSDKError") ]
    ELSE ensureTokenExpiry(self, t)

(* ensureToken from line 475, at time t, up to its first await, throw or   *)
(* return                                                                  *)
ensureTokenBegin(self, t) ==
    IF ~Truthy(self.accessToken)
    THEN IF hasCredentials(self)
         THEN [ next |-> "await1", started |-> 1, error |-> Null ]
         ELSE [ next |-> "throw", started |-> 0,
                error |-> Thrown("PaynetSDKError") ]
    ELSE ensureTokenExpiry(self, t)

-----------------------------------------------------------------------------
(* The asynchronous calls *)

(* a call: pc is where it stands ("idle", "auth": authenticate awaits its  *)
(* request, "await1" and "await2": ensureToken awaits authenticate on      *)
(* line 480 or 493, "request": the API request is in flight, "done"), req  *)
(* the arguments of its last authenticate or setAccessToken, inflight the  *)
(* number of its /auth requests in flight, sent the number of HTTP         *)
(* requests it has sent, ensured what ensureToken returned and whether the *)
(* cached token was expired then, out its outcome                          *)
IdleCall ==
    [ pc |-> "idle", op |-> "none", req |-> Null, inflight |-> 0,
      sent |-> 0, ensured |-> Null, out |-> Null ]

Credentials ==
    { AuthRequest(Str(<<"u", "1">>), Str(<<"p", "1">>)),
      AuthRequest(Str(<<"u", "2">>), Str(<<"p", "2">>)) }

(* what the /auth endpoint answers: the transport fails, a status that is  *)
(* not OK, or a token with its expires_in                                  *)
AuthResponses ==
    { [ kind |-> "rejected" ], [ kind |-> "notOk" ] }
    \cup { [ kind |-> "ok", access_token |-> Str(<<"t", "1">>),
             expires_in |-> e ] : e \in { 3, 6 } }

(* the arguments of setAccessToken *)
ManualTokens == { Str(<<>>), Str(<<"t", "0">>) }

ManualExpiresIn == { Null, Num(1), Num(6) }

ApiOps == { "createPayment", "getPayment", "searchPayments" }

CanStart(c) == calls[c].pc \in { "idle", "done" }

(* the rest of ensureToken and of its caller after what ensureToken does   *)
(* next is known: the call c, which has made `made` requests so far        *)
Continue(c, op, self, step, made, flying) ==
    CASE step.next = "throw" ->
            [ IdleCall EXCEPT !.pc = "done", !.op = op, !.sent = made,
                              !.inflight = flying, !.out = step.error ]
      [] step.next = "return" ->
            [ IdleCall EXCEPT !.pc = "request", !.op = op,
                              !.sent = made + step.started + 1,
                              !.inflight = flying + step.started,
                              !.ensured = [ token |-> self.accessToken,
                                            expired |-> tokenExpired(self, now) ] ]
      [] OTHER ->
            [ IdleCall EXCEPT !.pc = step.next, !.op = op,
                              !.sent = made + step.started,
                              !.inflight = flying + step.started,
                              !.req = AuthRequest(self.authUsername,
                                                  self.authPassword) ]

(* await sdk.authenticate(username, password), up to its request *)
Authenticate(c) ==
    /\ CanStart(c)
    /\ \E cred \in Credentials :
         /\ sdk' = authenticateBegin(sdk, cred.username, cred.password)
         /\ calls' = [ calls EXCEPT ![c] =
                         [ IdleCall EXCEPT !.pc = "auth", !.op = "authenticate",
                                           !.req = cred, !.inflight = 1,
                                           !.sent = 1 ] ]
    /\ UNCHANGED <<payVars, notifVars, edits, formVars, now>>

(* sdk.setAccessToken(token, expiresIn) *)
SetAccessToken(c) ==
    /\ CanStart(c)
    /\ \E token \in ManualTokens, expiresIn \in ManualExpiresIn :
         /\ sdk' = setAccessToken(sdk, token, expiresIn, now)
         /\ calls' = [ calls EXCEPT ![c] =
                         [ IdleCall EXCEPT !.pc = "done",
                                           !.op = "setAccessToken",
                                           !.req = [ token |-> token,
                                                     expiresIn |-> expiresIn ],
                                           !.out = [ status |-> "returned" ] ] ]
    /\ UNCHANGED <<payVars, notifVars, edits, formVars, now>>

(* createPayment, getPayment or searchPayments up to the first await that  *)
(* suspends it: ensureToken throws, starts authenticate, or returns the    *)
(* token and the API request is sent                                       *)
StartApiCall(c, op) ==
    /\ CanStart(c)
    /\ LET step == ensureTokenBegin(sdk, now)
       IN calls' = [ calls EXCEPT ![c] = Continue(c, op, sdk, step, 0, 0) ]
    /\ UNCHANGED <<payVars, notifVars, edits, formVars, sdk, now>>

CreatePayment(c) == StartApiCall(c, "createPayment")

GetPayment(c) == StartApiCall(c, "getPayment")

SearchPayments(c) == StartApiCall(c, "searchPayments")

(* an /auth request of call c settles: authenticate runs to its end and    *)
(* whoever awaits it goes on, up to its next await, throw or request       *)
AuthResponse(c) ==
    /\ calls[c].inflight > 0
    /\ \E response \in AuthResponses :
         LET call == calls[c]
             end == authenticateEnd(sdk, response, now)
             flying == call.inflight - 1
         IN /\ sdk' = end.sdk
            /\ calls' = [ calls EXCEPT ![c] =
                 CASE call.pc = "auth" ->
                        [ call EXCEPT !.pc = "done", !.inflight = flying,
                                      !.out = end.out ]
                   [] call.pc \in { "await1", "await2" }
                        /\ end.out.status = "threw" ->
                        [ call EXCEPT !.pc = "done", !.inflight = flying,
                                      !.out = end.out ]
                   [] call.pc = "await1" /\ end.out.status = "returned" ->
                        Continue(c, call.op, end.sdk,
                                 ensureTokenExpiry(end.sdk, now),
                                 call.sent, flying)
                   [] call.pc = "await2" /\ end.out.status = "returned" ->
                        Continue(c, call.op, end.sdk,
                                 [ next |-> "return", started |-> 0,
                                   error |-> Null ],
                                 call.sent, flying)
                   [] OTHER -> [ call EXCEPT !.inflight = flying ] ]
    /\ UNCHANGED <<payVars, notifVars, edits, formVars, now>>

(* the API request of call c settles *)
ApiResponse(c) ==
    /\ calls[c].pc = "request"
    /\ \E out \in { [ status |-> "returned" ], Thrown("PaynetApiError"),
                    Thrown("PaynetNetworkError") } :
         calls' = [ calls EXCEPT ![c] = [ @ EXCEPT !.pc = "done",
                                                   !.ensured = Null,
                                                   !.out = out ] ]
    /\ UNCHANGED <<payVars, notifVars, edits, formVars, sdk, now>>

(* a second passes *)
Tick ==
    /\ now < MaxTime
    /\ now' = now + 1
    /\ UNCHANGED <<payVars, notifVars, edits, formVars, sdk, calls>>

-----------------------------------------------------------------------------
(* The state of a new instance and of callers that have called nothing *)

InitSDK ==
    /\ formCall = NoCall
    /\ dtoCall = NoCall
    /\ sdk = PaynetServerSDK(DefaultConfig)
    /\ now = 0
    /\ calls = [ c \in Callers |-> IdleCall ]

-----------------------------------------------------------------------------
(* Specifications *)

Init ==
    /\ payment \in BasePayments
    /\ notification = BaseNotification
    /\ edits = 0
    /\ payCall = NoCall
    /\ prevPayCall = NoCall
    /\ notifCall = NoCall
    /\ verifyCall = NoCall
    /\ InitSDK

Next ==
    \/ SetPaymentField
    \/ SwapServices
    \/ AddService
    \/ AddProduct
    \/ SetSubRecord
    \/ CallGeneratePaymentSignature

(* the caller edits a payment and signs it *)
Spec == Init /\ [][Next]_vars

InitNotification ==
    /\ payment = MinimalPayment
    /\ notification = BaseNotification
    /\ edits = 0
    /\ payCall = NoCall
    /\ prevPayCall = NoCall
    /\ notifCall = NoCall
    /\ verifyCall = NoCall
    /\ InitSDK

NextNotification ==
    \/ SetNotificationField
    \/ SetNotificationPayment
    \/ AttachSignature
    \/ CallGenerateNotificationSignature
    \/ CallVerifyNotificationSignature
    \/ CallGeneratePaymentSignature

(* the caller edits a notification, signs it and verifies it, and signs a  *)
(* payment                                                                 *)
SpecNotification == InitNotification /\ [][NextNotification]_vars

NextCalls ==
    \/ SetSubRecord
    \/ SetNotificationPayment
    \/ CallGeneratePaymentSignature
    \/ CallGenerateNotificationSignature
    \/ CallVerifyNotificationSignature

(* the three functions called in any order on well-formed and malformed    *)
(* records                                                                 *)
SpecCalls == Init /\ [][NextCalls]_vars

InitForms ==
    /\ payment \in FormPayments
    /\ notification = BaseNotification
    /\ edits = 0
    /\ payCall = NoCall
    /\ prevPayCall = NoCall
    /\ notifCall = NoCall
    /\ verifyCall = NoCall
    /\ InitSDK

NextForms ==
    \/ SetPaymentField
    \/ CallBuildSetEcomForm

(* the caller edits the signed fields of a payment and builds the SetEcom  *)
(* form from it                                                            *)
SpecForms == InitForms /\ [][NextForms]_vars

NextGetEcom ==
    \/ SetFormField
    \/ CallBuildSetEcomForm
    \/ CallBuildGetEcomForm

(* the caller edits the identifiers and the signature of a payment and     *)
(* builds the two checkout forms from it                                   *)
SpecGetEcom == InitForms /\ [][NextGetEcom]_vars

(* a payment that came with a Signature and has no Customer record *)
SignedNoCustomerPayment ==
    [ WithFormFields(NoCustomerPayment) EXCEPT
        !.Signature = Str(<<"s", "i", "g">>), !.PaymentID = Num(7) ]

(* a notification that has no Payment record *)
NoPaymentNotification == [ BaseNotification EXCEPT !.Payment = Null ]

InitFrame ==
    /\ payment \in { WithFormFields(p) : p \in BasePayments }
                    \cup { SignedNoCustomerPayment }
    /\ notification \in { BaseNotification, NoPaymentNotification }
    /\ edits = 0
    /\ payCall = NoCall
    /\ prevPayCall = NoCall
    /\ notifCall = NoCall
    /\ verifyCall = NoCall
    /\ InitSDK

NextFrame ==
    \/ CallGeneratePaymentSignature
    \/ CallGenerateNotificationSignature
    \/ CallVerifyNotificationSignature
    \/ CallBuildSetEcomForm
    \/ CallBuildGetEcomForm

(* the caller calls every synchronous operation of the SDK on its records *)
SpecFrame == InitFrame /\ [][NextFrame]_vars

NextDTO ==
    \/ CallCreatePayment

(* the caller gives payments to createPayment, which builds their bodies *)
SpecDTO == InitNotification /\ [][NextDTO]_vars

NextSession ==
    \/ \E c \in Callers : Authenticate(c)
    \/ \E c \in Callers : SetAccessToken(c)
    \/ \E c \in Callers : CreatePayment(c)
    \/ \E c \in Callers : GetPayment(c)
    \/ \E c \in Callers : SearchPayments(c)
    \/ \E c \in Callers : AuthResponse(c)
    \/ \E c \in Callers : ApiResponse(c)
    \/ Tick

(* callers use one instance concurrently while time passes *)
SpecSession == InitNotification /\ [][NextSession]_vars

NextNoCredentials ==
    \/ \E c \in Callers : SetAccessToken(c)
    \/ \E c \in Callers : CreatePayment(c)
    \/ \E c \in Callers : GetPayment(c)
    \/ \E c \in Callers : SearchPayments(c)
    \/ \E c \in Callers : ApiResponse(c)
    \/ Tick

(* callers use an instance on which authenticate is never called *)
SpecNoCredentials == InitNotification /\ [][NextNoCredentials]_vars

-----------------------------------------------------------------------------
(* Properties of generatePaymentSignature, checked under Spec *)

Returned(c) == c.op # "none" /\ c.out.status = "returned"

BothPayCallsReturned ==
    /\ Returned(prevPayCall)
    /\ Returned(payCall)
    /\ prevPayCall.key = payCall.key

RECURSIVE TotalProducts(_)
TotalProducts(svcs) ==
    IF svcs = <<>> THEN 0
    ELSE Len(OrEmpty(Head(svcs).Products)) + TotalProducts(Tail(svcs))

(* number of slots before the i-th service *)
RECURSIVE ServiceOffset(_, _)
ServiceOffset(svcs, i) ==
    IF i = 1 THEN 13
    ELSE ServiceOffset(svcs, i - 1) + 3 + 10 * Len(OrEmpty(svcs[i - 1].Products))

(* C1: the value list of a generatePaymentSignature call that returns has   *)
(* 13 + 3*services + 10*products slots: slots 1..13 hold Currency, the      *)
(* eight Customer fields (Address, City, Code, Country, email, NameFirst,   *)
(* NameLast, PhoneNumber), ExpiryDate, Invoice, MerchantCode and            *)
(* MoneyType.Code; each service in list order then takes three slots        *)
(* (Amount, Description, Name) followed at once by ten slots for each of    *)
(* its products in list order.                                              *)
C1_PaymentSchedule ==
    Returned(payCall) =>
        LET p == payCall.arg
            v == payCall.out.values
            svcs == OrEmpty(p.Services)
        IN  /\ Len(v) = 13 + 3 * Len(svcs) + 10 * TotalProducts(svcs)
            /\ v[1] = p.Currency
            /\ v[2] = p.Customer.Address
            /\ v[3] = p.Customer.City
            /\ v[4] = p.Customer.Code
            /\ v[5] = p.Customer.Country
            /\ v[6] = p.Customer.email
            /\ v[7] = p.Customer.NameFirst
            /\ v[8] = p.Customer.NameLast
            /\ v[9] = p.Customer.PhoneNumber
            /\ v[10] = p.ExpiryDate
            /\ v[11] = p.Invoice
            /\ v[12] = p.MerchantCode
            /\ v[13] = (IF p.MoneyType = Null THEN Null ELSE p.MoneyType.Code)
            /\ \A i \in 1..Len(svcs) :
                 LET o == ServiceOffset(svcs, i)
                     prods == OrEmpty(svcs[i].Products)
                 IN  /\ v[o + 1] = svcs[i].Amount
                     /\ v[o + 2] = svcs[i].Description
                     /\ v[o + 3] = svcs[i].Name
                     /\ \A j \in 1..Len(prods) :
                          LET b == o + 3 + 10 * (j - 1) IN
                          /\ v[b + 1] = prods[j].Amount
                          /\ v[b + 2] = prods[j].Barcode
                          /\ v[b + 3] = prods[j].Code
                          /\ v[b + 4] = prods[j].Description
                          /\ v[b + 5] = prods[j].GroupId
                          /\ v[b + 6] = prods[j].GroupName
                          /\ v[b + 7] = prods[j].LineNo
                          /\ v[b + 8] = prods[j].Name
                          /\ v[b + 9] = prods[j].UnitPrice
                          /\ v[b + 10] = prods[j].UnitProduct

(* a returned call on a payment whose first service has a product and is   *)
(* followed by another service                                             *)
C1_Witness ==
    /\ Returned(payCall)
    /\ Len(OrEmpty(payCall.arg.Services)) >= 2
    /\ Len(OrEmpty(payCall.arg.Services.items[1].Products)) >= 1

(* q is p with one absent (null) schedule field given as the empty string *)
AbsentGivenAsEmpty(p, q) ==
    \/ \E path \in PaymentPaths(p) :
         /\ GetField(p, path) = Null
         /\ q = SetField(p, path, Str(<<>>))
    \/ /\ p.MoneyType = Null
       /\ q = [p EXCEPT !.MoneyType = [Code |-> Str(<<>>)]]

NullSafetyPair ==
    /\ BothPayCallsReturned
    /\ \/ AbsentGivenAsEmpty(prevPayCall.arg, payCall.arg)
       \/ AbsentGivenAsEmpty(payCall.arg, prevPayCall.arg)

(* C3: two returned calls under the same secret, on payments that differ    *)
(* only in one schedule field being absent in one and the empty string in   *)
(* the other, build the same canonical string and return the same           *)
(* signature; the value lists have the same length and the same string in   *)
(* every slot, so no later value shifts.                                    *)
C3_NullSafety ==
    NullSafetyPair =>
        /\ payCall.out.str = prevPayCall.out.str
        /\ payCall.out.value = prevPayCall.out.value
        /\ Len(payCall.out.values) = Len(prevPayCall.out.values)
        /\ MapToString(payCall.out.values) = MapToString(prevPayCall.out.values)

(* the pair of calls exists for Customer.email *)
C3_Witness ==
    /\ NullSafetyPair
    /\ { prevPayCall.arg.Customer.email, payCall.arg.Customer.email }
          = { Null, Str(<<>>) }

(* canonical segment of one service: its values, stringified and joined *)
ServiceSegment(svc) == Join(MapToString(serviceValues(svc)))

(* the segments of entries i..j of a list, joined *)
RECURSIVE SegmentsJoined(_, _, _)
SegmentsJoined(svcs, i, j) ==
    IF i > j THEN <<>>
    ELSE ServiceSegment(svcs[i]) \o SegmentsJoined(svcs, i + 1, j)

(* the latest two calls returned, the later on the earlier's payment with  *)
(* services i and j exchanged                                             *)
SwappedPair(i, j) ==
    /\ BothPayCallsReturned
    /\ prevPayCall.arg.Services # Null
    /\ i \in 1..Len(prevPayCall.arg.Services.items)
    /\ j \in 1..Len(prevPayCall.arg.Services.items)
    /\ i < j
    /\ payCall.arg = [prevPayCall.arg EXCEPT !.Services.items = Swap(@, i, j)]

(* C6 as stated: exchanging two services that are not field-wise identical *)
(* changes the canonical string.                                           *)
C6_SwapChangesUnlessIdentical ==
    \A i, j \in 1..MaxServices :
        ( /\ SwappedPair(i, j)
          /\ prevPayCall.arg.Services.items[i] # prevPayCall.arg.Services.items[j] )
        => payCall.out.str # prevPayCall.out.str

(* C6 amended: exchanging services i and j changes the canonical string    *)
(* exactly when the joined segments of entries i..j differ between the two *)
(* orders; field-wise different entries whose segments read the same in    *)
(* both orders leave it unchanged.                                         *)
C6_SwapChangesIffSegmentsDiffer ==
    \A i, j \in 1..MaxServices :
        SwappedPair(i, j) =>
            ( payCall.out.str # prevPayCall.out.str
              <=> SegmentsJoined(prevPayCall.arg.Services.items, i, j)
                    # SegmentsJoined(payCall.arg.Services.items, i, j) )

(* an exchange of two different services that changed the canonical string *)
C6_Witness ==
    \E i, j \in 1..MaxServices :
        /\ SwappedPair(i, j)
        /\ prevPayCall.arg.Services.items[i] # prevPayCall.arg.Services.items[j]
        /\ payCall.out.str # prevPayCall.out.str

(* the scalar fields both payments of the latest two calls have *)
CommonPaths ==
    IF BothPayCallsReturned
    THEN PaymentPaths(prevPayCall.arg) \cap PaymentPaths(payCall.arg)
    ELSE {}

(* the latest two calls returned, the later on the earlier's payment with  *)
(* the value of the scalar field at path changed and nothing else          *)
ChangedField(path) ==
    /\ GetField(payCall.arg, path) # GetField(prevPayCall.arg, path)
    /\ payCall.arg = SetField(prevPayCall.arg, path, GetField(payCall.arg, path))

(* C7 as stated: changing the value of one scalar schedule field changes   *)
(* the canonical string.                                                   *)
C7_AnyChangeChangesString ==
    \A path \in CommonPaths :
        ChangedField(path) => payCall.out.str # prevPayCall.out.str

(* C7 amended: changing one scalar schedule field to a value with another  *)
(* string form changes the canonical string and the signature; a change    *)
(* between absent and the empty string changes neither.                    *)
C7_ChangeOfStringFormChangesString ==
    \A path \in CommonPaths :
        ChangedField(path) =>
            IF toString(GetField(payCall.arg, path))
                  # toString(GetField(prevPayCall.arg, path))
            THEN /\ payCall.out.str # prevPayCall.out.str
                 /\ payCall.out.value # prevPayCall.out.value
            ELSE /\ payCall.out.str = prevPayCall.out.str
                 /\ payCall.out.value = prevPayCall.out.value

(* Invoice was changed between the two calls and the signature changed *)
C7_Witness ==
    /\ [at |-> "top", f |-> "Invoice"] \in CommonPaths
    /\ ChangedField([at |-> "top", f |-> "Invoice"])
    /\ toString(payCall.arg.Invoice) # toString(prevPayCall.arg.Invoice)
    /\ payCall.out.value # prevPayCall.out.value

-----------------------------------------------------------------------------
(* Properties of generateNotificationSignature and                         *)
(* verifyNotificationSignature, checked under SpecNotification             *)

(* n with its Signature and SignVersion fields blanked *)
WithoutSignature(n) == [n EXCEPT !.Signature = Null, !.SignVersion = Null]

(* a generateNotificationSignature call returned, and so did the one a     *)
(* verifyNotificationSignature call made                                   *)
BothNotifCallsReturned == Returned(notifCall) /\ Returned(verifyCall)

(* C2: the canonical string of a generateNotificationSignature call that    *)
(* returns is the nine values EventDate, EventID, EventType,                *)
(* Payment.Amount, Payment.Customer, Payment.ExternalID, Payment.ID,        *)
(* Payment.Merchant, Payment.StatusDate, stringified and joined in that     *)
(* order with nothing between them; two calls on notifications that differ  *)
(* only in Signature and SignVersion build the same string.                 *)
C2_NotificationSchedule ==
    /\ Returned(notifCall) =>
          LET n == notifCall.arg IN
          /\ Len(notifCall.out.values) = 9
          /\ notifCall.out.str =
                toString(n.EventDate) \o toString(n.EventID)
                  \o toString(n.EventType) \o toString(n.Payment.Amount)
                  \o toString(n.Payment.Customer)
                  \o toString(n.Payment.ExternalID) \o toString(n.Payment.ID)
                  \o toString(n.Payment.Merchant)
                  \o toString(n.Payment.StatusDate)
    /\ ( /\ BothNotifCallsReturned
         /\ WithoutSignature(notifCall.arg) = WithoutSignature(verifyCall.arg) )
       => notifCall.out.str = verifyCall.out.computed.str

(* the notification was signed, a Signature was put on it, and the call     *)
(* that verification makes signed it again                                  *)
C2_Witness ==
    /\ BothNotifCallsReturned
    /\ WithoutSignature(notifCall.arg) = WithoutSignature(verifyCall.arg)
    /\ notifCall.arg.Signature # verifyCall.arg.Signature
    /\ notifCall.out.str # <<>>

(* C4: a returned signature is the encoded digest of the canonical string   *)
(* followed by the secret, so two calls whose canonical string followed by  *)
(* the secret read the same return the same signature.                      *)
C4_SecretAppended ==
    /\ \A c \in { notifCall, payCall } :
          Returned(c) => c.out.value = Str(Md5Base64(c.out.str \o c.key))
    /\ ( /\ BothNotifCallsReturned
         /\ notifCall.out.str \o notifCall.key
               = verifyCall.out.computed.str \o verifyCall.key )
       => notifCall.out.value = verifyCall.out.computed.value

(* two calls with different secrets and different canonical strings whose  *)
(* concatenations agree, and a returned generatePaymentSignature call      *)
C4_Witness ==
    /\ Returned(payCall)
    /\ BothNotifCallsReturned
    /\ notifCall.key # verifyCall.key
    /\ notifCall.out.str # verifyCall.out.computed.str
    /\ notifCall.out.str \o notifCall.key
          = verifyCall.out.computed.str \o verifyCall.key

(* verifyCall was made on the notification of the latest returned          *)
(* generateNotificationSignature call with that call's result as its       *)
(* Signature, under the same secret                                        *)
RoundTrip ==
    /\ Returned(notifCall)
    /\ verifyCall.op # "none"
    /\ verifyCall.key = notifCall.key
    /\ verifyCall.arg = [notifCall.arg EXCEPT !.Signature = notifCall.out.value]

(* C8: verifying a notification that carries the signature                  *)
(* generateNotificationSignature returned for it, under the same secret,    *)
(* returns true.                                                            *)
C8_VerificationRoundTrip ==
    RoundTrip => verifyCall.out.status = "returned" /\ verifyCall.out.value = TRUE

C8_Witness ==
    /\ RoundTrip
    /\ verifyCall.arg.Signature # notifCall.arg.Signature

(* the latest generateNotificationSignature call returned and was made on  *)
(* the notification of verifyCall, whatever Signature it carried           *)
SignedSameNotification ==
    /\ Returned(notifCall)
    /\ WithoutSignature(notifCall.arg) = WithoutSignature(verifyCall.arg)

(* C9: a verifyNotificationSignature call on a notification that has a      *)
(* Payment record returns a boolean and never throws; the boolean is true   *)
(* exactly when the notification's Signature equals the signature           *)
(* generateNotificationSignature returns for it under the same secret, and  *)
(* false for any other Signature: an absent one, one that is no digest,     *)
(* one made with another secret.                                            *)
C9_VerificationRejection ==
    ( verifyCall.op # "none" /\ verifyCall.arg.Payment # Null ) =>
        /\ verifyCall.out.status = "returned"
        /\ verifyCall.out.value \in BOOLEAN
        /\ ( SignedSameNotification /\ notifCall.key = verifyCall.key )
              => verifyCall.out.value
                    = (verifyCall.arg.Signature = notifCall.out.value)
        /\ verifyCall.arg.Signature \in SignatureVals
              => verifyCall.out.value = FALSE
        /\ ( /\ SignedSameNotification
             /\ notifCall.key # verifyCall.key
             /\ verifyCall.arg.Signature = notifCall.out.value )
              => verifyCall.out.value = FALSE

(* a signature made with another secret is on the notification and the     *)
(* verification returned false                                             *)
C9_Witness ==
    /\ verifyCall.op # "none"
    /\ SignedSameNotification
    /\ notifCall.key # verifyCall.key
    /\ verifyCall.arg.Signature = notifCall.out.value
    /\ verifyCall.out.value = FALSE

-----------------------------------------------------------------------------
(* Properties checked under SpecCalls *)

Threw(c) == c.out = [status |-> "threw", error |-> "TypeError"]

(* C10: generatePaymentSignature on a payment without a Customer record,    *)
(* and generateNotificationSignature and verifyNotificationSignature on a   *)
(* notification without a Payment record, throw and return nothing; on a    *)
(* payment whose Customer record is present, even with every field but      *)
(* Code absent or all absent, generatePaymentSignature returns a            *)
(* signature.                                                               *)
C10_MalformedInputFails ==
    /\ payCall.op # "none" =>
          IF payCall.arg.Customer = Null THEN Threw(payCall)
          ELSE Returned(payCall) /\ payCall.out.value.t = "str"
    /\ ( notifCall.op # "none" /\ notifCall.arg.Payment = Null )
          => Threw(notifCall)
    /\ ( verifyCall.op # "none" /\ verifyCall.arg.Payment = Null )
          => Threw(verifyCall)

(* all three functions were called on a malformed record *)
C10_Witness ==
    /\ payCall.op # "none"
    /\ payCall.arg.Customer = Null
    /\ notifCall.op # "none"
    /\ notifCall.arg.Payment = Null
    /\ verifyCall.op # "none"
    /\ verifyCall.arg.Payment = Null

-----------------------------------------------------------------------------
(* C11: generatePaymentSignature fails on a Payment whose required         *)
(* Services list is absent (undefined or null); it does not sign it as if  *)
(* the list were empty.                                                    *)

C11_AbsentServicesFail ==
    ( /\ payCall # NoCall
      /\ payCall.arg.Services = Null )
    => Threw(payCall)

-----------------------------------------------------------------------------
(* Frame of the synchronous operations *)

SignatureCallMade ==
    \/ payCall' # payCall
    \/ notifCall' # notifCall
    \/ verifyCall' # verifyCall

(* C12: a call of generatePaymentSignature, generateNotificationSignature  *)
(* or verifyNotificationSignature, returning or throwing, leaves the       *)
(* caller's payment and notification as they were; so does                 *)
(* buildGetEcomForm; buildSetEcomForm changes no field of the payment      *)
(* other than Signature and SignVersion.                                   *)
C12_InputsUnchanged ==
    [][ /\ SignatureCallMade =>
             /\ payment' = payment
             /\ notification' = notification
        /\ formCall' # formCall =>
             /\ notification' = notification
             /\ formCall'.op = "buildGetEcomForm" => payment' = payment
             /\ formCall'.op = "buildSetEcomForm" =>
                  /\ DOMAIN payment' = DOMAIN payment
                  /\ \A f \in DOMAIN payment \ { "Signature", "SignVersion" } :
                        payment'[f] = payment[f]
      ]_vars

(* a signature call has thrown, and a buildSetEcomForm call that threw as  *)
(* well has written to the payment                                         *)
C12_Witness ==
    /\ payCall # NoCall
    /\ Threw(payCall)
    /\ formCall # NoCall
    /\ formCall.op = "buildSetEcomForm"
    /\ formCall.out.status = "threw"
    /\ formCall.out.payment # formCall.arg

-----------------------------------------------------------------------------
(* The forms *)

InputsNamed(form, name) ==
    { i \in DOMAIN form.inputs : form.inputs[i].name = name }

SetEcomFormReturned ==
    /\ formCall # NoCall
    /\ formCall.op = "buildSetEcomForm"
    /\ formCall.out.status = "returned"

(* the caller has supplied a Signature of its own *)
CallerSigned(p) == p.Signature \in SignatureVals \ { Null }

(* C17: the Signature input of a form buildSetEcomForm returns carries     *)
(* generatePaymentSignature(payment, secretKey) of the payment as it was   *)
(* when the call was made, whatever edits and buildSetEcomForm calls came  *)
(* before (the caller never supplying a Signature itself).                 *)
C17_FormSignatureIsCurrent ==
    ( SetEcomFormReturned /\ ~CallerSigned(formCall.arg) ) =>
        \E i \in InputsNamed(formCall.out.form, <<"Signature">>) :
            formCall.out.form.inputs[i].value =
                escapeHtml(String(generatePaymentSignature(
                                     formCall.arg, sdk.secretKey).value))

GetEcomFormMade ==
    /\ formCall' # formCall
    /\ formCall'.op = "buildGetEcomForm"

HasPaymentId(p) == Truthy(p.PaymentID) \/ Truthy(p.PaymentId)

(* C18: buildGetEcomForm throws PaynetValidationError and returns no form  *)
(* when the payment has neither PaymentID nor PaymentId (a zero id counts  *)
(* as none) or has no Signature (an empty one counts as none); otherwise   *)
(* the form posts to <portalHost>/Acquiring/GetEcom, its one operation     *)
(* input carries PaymentID, or PaymentId when there is no PaymentID, its   *)
(* one Signature input carries payment.Signature, and the payment is as    *)
(* it was.                                                                 *)
C18_GetEcomForm ==
    [][ GetEcomFormMade =>
          LET p == formCall'.arg
              out == formCall'.out
          IN /\ p = payment
             /\ payment' = payment
             /\ IF ~HasPaymentId(p) \/ ~Truthy(p.Signature)
                THEN out = [ status |-> "threw",
                             error |-> "PaynetValidationError" ]
                ELSE /\ out.status = "returned"
                     /\ out.form.action =
                          StripTrailingSlash(DefaultConfig.portalHost)
                            \o <<"/Acquiring/GetEcom">>
                     /\ Cardinality(InputsNamed(out.form, <<"operation">>)) = 1
                     /\ \A i \in InputsNamed(out.form, <<"operation">>) :
                           out.form.inputs[i].value =
                             TemplateString(IF Truthy(p.PaymentID)
                                            THEN p.PaymentID ELSE p.PaymentId)
                     /\ Cardinality(InputsNamed(out.form, <<"Signature">>)) = 1
                     /\ \A i \in InputsNamed(out.form, <<"Signature">>) :
                           out.form.inputs[i].value = p.Signature.s
      ]_vars

(* a form was returned for a payment that has both identifiers *)
C18_Witness ==
    /\ formCall # NoCall
    /\ formCall.op = "buildGetEcomForm"
    /\ formCall.out.status = "returned"
    /\ Truthy(formCall.arg.PaymentID)
    /\ Truthy(formCall.arg.PaymentId)
    /\ payment = formCall.arg

(* the number of inputs a field of value v must produce *)
InputsFor(v) == IF v = Null THEN 0 ELSE 1

(* C20: in the form buildSetEcomForm returns, every Customer field F that  *)
(* is not null has exactly one input named Customer.F and every field F    *)
(* of the i-th service exactly one input named Services[i].F; a field      *)
(* that is null or undefined has none.                                     *)
C20_OneInputPerField ==
    SetEcomFormReturned =>
        LET p == formCall.out.payment
            form == formCall.out.form
        IN /\ \A F \in CustomerFields :
                Cardinality(InputsNamed(form, <<"Customer", ".", F>>))
                    = InputsFor(p.Customer[F])
           /\ \A i \in ServiceIndexes(p) :
                \A F \in ServiceFields \cup { "Products" } :
                   Cardinality(InputsNamed(form,
                        <<"Services">> \o Index(i) \o <<".", F>>))
                       = InputsFor(p.Services.items[i][F])

-----------------------------------------------------------------------------
(* The amounts createPayment sends *)

(* what one product contributes: TotalAmount if present, else Amount if    *)
(* present, else quantity times UnitPrice                                  *)
ProductAmount(product) ==
    IF product.TotalAmount # Null THEN product.TotalAmount.n
    ELSE IF product.Amount # Null THEN product.Amount.n
    ELSE productQuantity(product)
           * (IF product.UnitPrice = Null THEN 0 ELSE product.UnitPrice.n)

RECURSIVE SumOfProducts(_)
SumOfProducts(products) ==
    IF products = <<>> THEN 0
    ELSE ProductAmount(Head(products)) + SumOfProducts(Tail(products))

(* C19: for every service given to createPayment, the Amount sent is the   *)
(* caller's Service.Amount whenever one was provided, 0 included, and is   *)
(* the sum over the products only when no Amount was provided (0 when      *)
(* there are no products).                                                 *)
C19_ServiceAmountSent ==
    ( dtoCall # NoCall /\ dtoCall.out.status = "returned" ) =>
        \A i \in 1..Len(dtoCall.arg.Services.items) :
            LET service == dtoCall.arg.Services.items[i]
                sent == dtoCall.out.value.Services.items[i].Amount
            IN IF service.Amount # Null THEN sent = service.Amount
               ELSE sent = Num(SumOfProducts(OrEmpty(service.Products)))


-----------------------------------------------------------------------------
(* The token cache *)

(* C13: whenever ensureToken returns a token to createPayment, getPayment  *)
(* or searchPayments, the cached token is not null and not expired at      *)
(* that moment, whatever expires_in the /auth endpoint returned and        *)
(* however the calls on the instance interleave.                           *)
C13_EnsuredTokenValid ==
    \A c \in Callers :
        calls[c].ensured # Null =>
            /\ calls[c].ensured.token # Null
            /\ ~calls[c].ensured.expired

(* the /auth requests in flight that ensureToken has made for call c *)
ReauthsInFlight(c) ==
    IF calls[c].op \in ApiOps THEN calls[c].inflight ELSE 0

(* C14 as stated: over all concurrently issued createPayment, getPayment   *)
(* and searchPayments calls of one instance, at most one re-authentication *)
(* request to /auth is in flight at any time.                              *)
C14_OneReauthInFlight ==
    /\ \A c \in Callers : ReauthsInFlight(c) <= 1
    /\ \A c1, c2 \in Callers :
          ( ReauthsInFlight(c1) > 0 /\ ReauthsInFlight(c2) > 0 ) => c1 = c2

(* C14 as amended: every outstanding call has at most one                  *)
(* re-authentication request in flight, and has one exactly while its      *)
(* ensureToken awaits authenticate; calls issued concurrently each send    *)
(* their own.                                                              *)
C14_OneReauthPerCall ==
    \A c \in Callers :
        /\ ReauthsInFlight(c) <= 1
        /\ calls[c].op \in ApiOps =>
              ( ReauthsInFlight(c) = 1 <=> calls[c].pc \in { "await1", "await2" } )

(* two calls have a re-authentication request in flight at once *)
C14_Witness ==
    \E c1, c2 \in Callers :
        /\ c1 # c2
        /\ ReauthsInFlight(c1) = 1
        /\ ReauthsInFlight(c2) = 1

NoCredentials == sdk.authUsername = Null /\ sdk.authPassword = Null

(* the expiresIn given to setAccessToken has elapsed *)
ExpiresInElapsed ==
    /\ sdk.accessToken # Null
    /\ sdk.tokenExpiresAt # Null
    /\ now >= sdk.tokenExpiresAt.n + Skew

ApiCallStarts(c) ==
    /\ calls'[c] # calls[c]
    /\ CanStart(c)
    /\ calls'[c].op \in ApiOps

(* C15: with no credentials stored and the token absent, or set by         *)
(* setAccessToken with an expiresIn that has elapsed, a createPayment,     *)
(* getPayment or searchPayments call fails with PaynetSDKError before it   *)
(* has sent any HTTP request and leaves accessToken and tokenExpiresAt as  *)
(* they were; setAccessToken without expiresIn leaves no expiry, and a     *)
(* call that finds a token without expiry is given that token.             *)
C15_NoCredentialsFail ==
    [][ \A c \in Callers :
          /\ ( /\ ApiCallStarts(c)
               /\ NoCredentials
               /\ sdk.accessToken = Null \/ ExpiresInElapsed )
             => /\ calls'[c].pc = "done"
                /\ calls'[c].out = Thrown("PaynetSDKError")
                /\ calls'[c].sent = 0
                /\ sdk' = sdk
          /\ ( /\ ApiCallStarts(c)
               /\ Truthy(sdk.accessToken)
               /\ sdk.tokenExpiresAt = Null )
             => /\ calls'[c].pc = "request"
                /\ calls'[c].ensured.token = sdk.accessToken
          /\ ( /\ calls'[c] # calls[c]
               /\ calls'[c].op = "setAccessToken"
               /\ calls'[c].req.expiresIn = Null )
             => /\ sdk'.accessToken = calls'[c].req.token
                /\ sdk'.tokenExpiresAt = Null
      ]_vars

(* a call has failed on a token whose expiresIn has elapsed *)
C15_Witness ==
    /\ NoCredentials
    /\ ExpiresInElapsed
    /\ \E c \in Callers :
          /\ calls[c].op \in ApiOps
          /\ calls[c].pc = "done"
          /\ calls[c].out = Thrown("PaynetSDKError")
          /\ calls[c].sent = 0

AuthenticateStarts(c) ==
    /\ calls'[c] # calls[c]
    /\ calls'[c].pc = "auth"

AuthenticateFails(c) ==
    /\ calls[c].pc = "auth"
    /\ calls'[c].pc = "done"
    /\ calls'[c].out.status = "threw"

ReauthStarts(c) ==
    /\ calls'[c] # calls[c]
    /\ calls'[c].pc \in { "await1", "await2" }
    /\ calls'[c].pc # calls[c].pc

(* C16: authenticate stores the username and password it is given before  *)
(* its request is made; when the request fails (PaynetNetworkError) or is  *)
(* answered with a status that is not OK (PaynetAuthenticationError),      *)
(* accessToken and tokenExpiresAt stay as they were and the stored         *)
(* credentials stay the new ones; every re-authentication ensureToken      *)
(* starts sends the credentials stored at that moment.                     *)
C16_FailedAuthenticate ==
    [][ \A c \in Callers :
          /\ AuthenticateStarts(c) =>
                /\ sdk'.authUsername = calls'[c].req.username
                /\ sdk'.authPassword = calls'[c].req.password
                /\ sdk'.accessToken = sdk.accessToken
                /\ sdk'.tokenExpiresAt = sdk.tokenExpiresAt
          /\ AuthenticateFails(c) =>
                /\ calls'[c].out \in { Thrown("PaynetNetworkError"),
                                       Thrown("PaynetAuthenticationError") }
                /\ sdk' = sdk
          /\ ReauthStarts(c) =>
                /\ calls'[c].req = AuthRequest(sdk'.authUsername,
                                               sdk'.authPassword)
                /\ sdk'.authUsername = sdk.authUsername
                /\ sdk'.authPassword = sdk.authPassword
      ]_vars

(* an authenticate call that replaced the credentials has failed, and a    *)
(* later call re-authenticates with the credentials it supplied            *)
C16_Witness ==
    \E c1, c2 \in Callers :
        /\ calls[c1].op = "authenticate"
        /\ calls[c1].pc = "done"
        /\ calls[c1].out.status = "threw"
        /\ calls[c2].pc = "await1"
        /\ calls[c2].req = calls[c1].req
        /\ sdk.accessToken = Null

====
